---- MODULE Spec2Model ----
(***************************************************************************)
(* Emission-line template construction of mangadap/proc/sasuke.py:         *)
(* EmissionLineTemplates.build_templates, check_database,                  *)
(* _parse_emission_line_database and _tied_index.                          *)
(*                                                                         *)
(* numpy arrays are sequences; element k (0-based) of an array is at       *)
(* position k+1.  Template, component and group ids keep the 0-based       *)
(* values of the code, -1 is the "unassigned" sentinel of the code.        *)
(***************************************************************************)
EXTENDS Integers, Sequences, FiniteSets, TLC

\* Largest number of rows of an emission-line database.
NLines == 3
\* Value at which the counter of passes of the while loop saturates.
MaxPasses == 4

NoTarget == 0
TieCodes == {"a", "k", "v", "s"}

\* mode strings "<code><optional target index>" of a line with action f in a
\* database of n rows
FitModes(n) ==
  {[code |-> "f", target |-> NoTarget]}
    \cup {[code |-> c, target |-> t] : c \in TieCodes, t \in 1..n}
    \cup {[code |-> "w", target |-> t] : t \in {NoTarget, 1}}
    \cup {[code |-> "x", target |-> 1]}

\* mode strings of a line that is not fitted: the code reads only the first
\* character of such a mode (f, a, x, anything else), never its target
IgnoredModes(n) ==
  {[code |-> "f", target |-> NoTarget]}
    \cup {[code |-> c, target |-> 1] : c \in {"a", "k", "x"}}

\* a row of the database; restwave is "in" when the rest wavelength of the
\* line lies inside the wavelength range of the template grid, "out" otherwise
Line(id, action, code, target) ==
  [index |-> id, action |-> action, code |-> code, target |-> target,
   restwave |-> "in"]

\* action and mode of one row of a database of n rows
LineChoices(n) ==
  {[action |-> "f", code |-> m.code, target |-> m.target] : m \in FitModes(n)}
    \cup {[action |-> "i", code |-> m.code, target |-> m.target] : m \in IgnoredModes(n)}

\* the database with the actions and modes c; the index of a row is its
\* position
MakeDatabase(c) ==
  [r \in DOMAIN c |-> Line(r, c[r].action, c[r].code, c[r].target)]

\* the database D with the rest wavelengths of the rows of S outside of the
\* wavelength range of the template grid
OutOfRange(D, S) ==
  [r \in DOMAIN D |-> IF r \in S THEN [D[r] EXCEPT !.restwave = "out"] ELSE D[r]]

\* rows of a database of fitted lines that are Primary, TieAll or
\* TieKinematics
WaveLineChoices(n) ==
  {[action |-> "f", code |-> "f", target |-> NoTarget]}
    \cup {[action |-> "f", code |-> c, target |-> t] : c \in {"a", "k"}, t \in 1..n}

----------------------------------------------------------------------------
(* numpy helpers *)

Range(arr) == {arr[p] : p \in DOMAIN arr}

\* numpy.amax of a non-empty array
Amax(arr) == CHOOSE m \in Range(arr) : \A x \in Range(arr) : x <= m

\* arr[k] is defined for -len <= k < len; a negative k counts from the end
InRange(arr, k) == k >= 0 - Len(arr) /\ k < Len(arr)
At(arr, k) == arr[(IF k < 0 THEN k + Len(arr) ELSE k) + 1]
Put(arr, k, v) == [arr EXCEPT ![(IF k < 0 THEN k + Len(arr) ELSE k) + 1] = v]

\* numpy.sum of a boolean array
Count(b) == Cardinality({p \in DOMAIN b : b[p]})

----------------------------------------------------------------------------
(* EmissionLineTemplates._tied_index(i): row whose 'index' is the target   *)
(* named in mode[i][1:]; 0 when no row has that index.                     *)
TiedIndex(D, i) ==
  LET hit == {r \in DOMAIN D : D[r].index = D[i].target}
  IN  IF hit = {} THEN 0 ELSE CHOOSE r \in hit : \A q \in hit : r <= q

ignore_line(D) == [r \in DOMAIN D |-> D[r].action # "f"]
tied_all(D) == [r \in DOMAIN D |-> D[r].code = "a"]
primary_line(D) == [r \in DOMAIN D |-> D[r].code = "f" /\ ~ignore_line(D)[r]]

\* mutation of PrimaryRank: the row number is used as the template of a
\* Primary line
PrimaryRank_row(D, r) == r - 1

\* line 224: number of Primary lines before row r, the template of row r
PrimaryRank(D, r) == Cardinality({q \in 1..(r - 1) : primary_line(D)[q]})

\* lines 212-229: the arrays before the while loop
ParseInit(D) ==
  LET n == Len(D) - Count(ignore_line(D)) - Count(tied_all(D))
      prim == primary_line(D)
      nprimary == Count(prim)
      rank(r) == PrimaryRank(D, r)
      blank == [t \in 1..(IF n < 0 THEN 0 ELSE n) |-> -1]
      first == [t \in DOMAIN blank |-> IF t <= nprimary THEN t - 1 ELSE -1]
      fin == [r \in DOMAIN D |-> prim[r] \/ ignore_line(D)[r]]
  IN  IF n < 0
        THEN \* numpy.zeros of a negative size
             [ntpl |-> n, tpli |-> <<>>, comp |-> <<>>, vgrp |-> <<>>, sgrp |-> <<>>,
              finished |-> fin, err |-> "ValueError", set |-> {"ntpl"}]
      ELSE IF nprimary > n /\ nprimary # 1
        THEN \* comp[:nprimary] = arange(nprimary) does not broadcast; an
             \* array of one element broadcasts to the empty slice
             [ntpl |-> n, tpli |-> [r \in DOMAIN D |-> IF prim[r] THEN rank(r) ELSE -1],
              comp |-> blank, vgrp |-> blank, sgrp |-> blank,
              finished |-> fin, err |-> "ValueError",
              set |-> {"ntpl", "comp", "vgrp", "sgrp", "tpli"}]
      ELSE [ntpl |-> n, tpli |-> [r \in DOMAIN D |-> IF prim[r] THEN rank(r) ELSE -1],
            comp |-> first, vgrp |-> first, sgrp |-> first,
            finished |-> fin, err |-> "",
            set |-> {"ntpl", "comp", "vgrp", "sgrp", "tpli"}]

\* mutation of ModeA: the line joins the template created last
ModeA_latest(r, i, indx) == [r EXCEPT !.tpli[i] = Amax(r.tpli)]

\* lines 241-243, mode a: the line joins the template of the line it is tied to
ModeA(r, i, indx) == [r EXCEPT !.tpli[i] = r.tpli[indx]]

\* mutation of ModeK: the line also gets a component of its own
ModeK_newcomp(r, i, indx) ==
  LET t == Amax(r.tpli) + 1
      r1 == [r EXCEPT !.tpli[i] = t]
      src == r.tpli[indx]
  IN  IF ~InRange(r.comp, t) \/ ~InRange(r.comp, src)
        THEN [r1 EXCEPT !.err = "IndexError"]
        ELSE [r1 EXCEPT !.comp = Put(r.comp, t, Amax(r.comp) + 1),
                        !.vgrp = Put(r.vgrp, t, At(r.vgrp, src)),
                        !.sgrp = Put(r.sgrp, t, At(r.sgrp, src))]

\* mutation of ModeK: the line joins the template of its target
ModeK_sametemplate(r, i, indx) == [r EXCEPT !.tpli[i] = r.tpli[indx]]

\* lines 244-250, mode k: new template in the component and groups of the target
ModeK(r, i, indx) ==
  LET t == Amax(r.tpli) + 1
      r1 == [r EXCEPT !.tpli[i] = t]
      src == r.tpli[indx]
  IN  IF ~InRange(r.comp, t) \/ ~InRange(r.comp, src)
        THEN [r1 EXCEPT !.err = "IndexError"]
        ELSE [r1 EXCEPT !.comp = Put(r.comp, t, At(r.comp, src)),
                        !.vgrp = Put(r.vgrp, t, At(r.vgrp, src)),
                        !.sgrp = Put(r.sgrp, t, At(r.sgrp, src))]

\* mutation of ModeV: the sigma group is copied from the target as well
ModeV_sharesigma(r, i, indx) ==
  LET t == Amax(r.tpli) + 1
      r1 == [r EXCEPT !.tpli[i] = t]
      src == r.tpli[indx]
  IN  IF Len(r.comp) = 0 THEN [r1 EXCEPT !.err = "ValueError"]
      ELSE IF ~InRange(r.comp, t) THEN [r1 EXCEPT !.err = "IndexError"]
      ELSE [r1 EXCEPT !.comp = Put(r.comp, t, Amax(r.comp) + 1),
                      !.sgrp = Put(r.sgrp, t, At(r.sgrp, src)),
                      !.vgrp = Put(r.vgrp, t, At(r.vgrp, src))]

\* lines 251-258, mode v: new template, component and sigma group, velocity
\* group of the target
ModeV(r, i, indx) ==
  LET t == Amax(r.tpli) + 1
      r1 == [r EXCEPT !.tpli[i] = t]
      src == r.tpli[indx]
  IN  IF Len(r.comp) = 0 THEN [r1 EXCEPT !.err = "ValueError"]
      ELSE IF ~InRange(r.comp, t) THEN [r1 EXCEPT !.err = "IndexError"]
      ELSE LET c1 == Put(r.comp, t, Amax(r.comp) + 1)
               s1 == Put(r.sgrp, t, Amax(r.sgrp) + 1)
           IN  [r1 EXCEPT !.comp = c1, !.sgrp = s1,
                          !.vgrp = Put(r.vgrp, t, At(r.vgrp, src))]

\* mutation of ModeS: the line gets a sigma group of its own
ModeS_newsigma(r, i, indx) ==
  LET t == Amax(r.tpli) + 1
      r1 == [r EXCEPT !.tpli[i] = t]
  IN  IF Len(r.comp) = 0 THEN [r1 EXCEPT !.err = "ValueError"]
      ELSE IF ~InRange(r.comp, t) THEN [r1 EXCEPT !.err = "IndexError"]
      ELSE [r1 EXCEPT !.comp = Put(r.comp, t, Amax(r.comp) + 1),
                      !.vgrp = Put(r.vgrp, t, Amax(r.vgrp) + 1),
                      !.sgrp = Put(r.sgrp, t, Amax(r.sgrp) + 1)]

\* lines 259-266, mode s: new template, component and velocity group, sigma
\* group of the target
ModeS(r, i, indx) ==
  LET t == Amax(r.tpli) + 1
      r1 == [r EXCEPT !.tpli[i] = t]
      src == r.tpli[indx]
  IN  IF Len(r.comp) = 0 THEN [r1 EXCEPT !.err = "ValueError"]
      ELSE IF ~InRange(r.comp, t) THEN [r1 EXCEPT !.err = "IndexError"]
      ELSE LET c1 == Put(r.comp, t, Amax(r.comp) + 1)
               v1 == Put(r.vgrp, t, Amax(r.vgrp) + 1)
           IN  [r1 EXCEPT !.comp = c1, !.vgrp = v1,
                          !.sgrp = Put(r.sgrp, t, At(r.sgrp, src))]

\* mutation of LineStep: the test of line 236 is missing, a line is resolved
\* before the line it is tied to
LineStep_nowait(D, r, i) ==
  IF r.finished[i] THEN r
  ELSE IF D[i].target = NoTarget
    THEN [r EXCEPT !.err = "ValueError"]
  ELSE LET indx == TiedIndex(D, i)
       IN  IF indx = 0 THEN [r EXCEPT !.err = "IndexError"]
           ELSE LET r1 == [r EXCEPT !.finished[i] = TRUE]
                IN  CASE D[i].code = "a" -> ModeA(r1, i, indx)
                      [] D[i].code = "k" -> ModeK(r1, i, indx)
                      [] D[i].code = "v" -> ModeV(r1, i, indx)
                      [] D[i].code = "s" -> ModeS(r1, i, indx)
                      [] OTHER -> r1

\* lines 233-266: the body of the for loop for row i
LineStep(D, r, i) ==
  IF r.finished[i] THEN r
  ELSE IF D[i].target = NoTarget
    THEN [r EXCEPT !.err = "ValueError"]       \* int('') in _tied_index
  ELSE LET indx == TiedIndex(D, i)
       IN  IF indx = 0 THEN [r EXCEPT !.err = "IndexError"]
           ELSE IF ~r.finished[indx] THEN r
           ELSE LET r1 == [r EXCEPT !.finished[i] = TRUE]
                IN  CASE D[i].code = "a" -> ModeA(r1, i, indx)
                      [] D[i].code = "k" -> ModeK(r1, i, indx)
                      [] D[i].code = "v" -> ModeV(r1, i, indx)
                      [] D[i].code = "s" -> ModeS(r1, i, indx)
                      [] OTHER -> r1

\* line 269: the check after the loop
DebugFails(r) ==
  \E t \in DOMAIN r.comp : r.comp[t] < 0 \/ r.vgrp[t] < 0 \/ r.sgrp[t] < 0

\* line 230: the condition of the while loop
AllFinished(r) == Count(r.finished) = Len(r.finished)

----------------------------------------------------------------------------
(* EmissionLineFit.check_emission_line_database (mangadap/proc/            *)
(* spectralfitting.py): a database without any Primary line is rejected.   *)
CheckEmissionLineDatabase(D) == \E r \in DOMAIN D : D[r].code = "f"

\* line 308: no line may tie only its flux
HasTieFluxOnly(D) == \E r \in DOMAIN D : D[r].code = "x"

\* line 312: the lines the warning is about
HasWeakIndependent(D) == \E r \in DOMAIN D : D[r].code = "w"

\* mutation of CheckDatabasePasses: the test for mode x is missing
CheckDatabasePasses_nox(D) == CheckEmissionLineDatabase(D)

\* lines 305-313: TRUE when check_database returns, FALSE when it raises
CheckDatabasePasses(D) == CheckEmissionLineDatabase(D) /\ ~HasTieFluxOnly(D)

\* lines 372-385: the lines whose profiles are summed into each row of flux
BuildFlux(n, tp) == [t \in 1..n |-> {j \in DOMAIN tp : tp[j] = t - 1}]

----------------------------------------------------------------------------
(* Sasuke.fit, lines 1283-1353: the template stack, the components and the *)
(* tied-parameter vector.                                                  *)

\* Largest number of stellar templates passed to Sasuke.fit.
MaxStellar == 1
\* number of moments of the stellar kinematics (stellar_kinematics.shape[1])
StellarMoments == {2, 4}
\* values of the argument degree and of the argument mdegree
Degrees == {-1, 0}
MDegrees == {-1, 0, 1}

\* line 1276: every emission-line component is fitted with two moments
moments == 2

\* an entry '' of the tied vector; an entry 'p[q]' is the number q
Free == -1

Abs(x) == IF x < 0 THEN 0 - x ELSE x
Max(a, b) == IF a >= b THEN a ELSE b

\* rows of a database all of whose lines are fitted
FittedLineChoices(n) ==
  {[action |-> "f", code |-> "f", target |-> NoTarget],
   [action |-> "f", code |-> "x", target |-> 1]}
    \cup {[action |-> "f", code |-> c, target |-> t] : c \in TieCodes, t \in 1..n}

\* lines 1286-1288 and 1297-1299: a per-template array of the emission-line
\* templates behind ns stellar templates of component and groups 0
StackGroups(ns, arr) ==
  IF ns = 0 THEN arr
  ELSE [t \in 1..(ns + Len(arr)) |-> IF t <= ns THEN 0 ELSE arr[t - ns] + 1]

\* lines 1289-1290 and 1302-1303
ComponentMoments(ns, sm, tc) ==
  [c \in 1..(Amax(tc) + 1) |-> IF ns > 0 /\ c = 1 THEN 0 - sm ELSE moments]

RECURSIVE SumAbs(_, _)
\* numpy.sum(numpy.absolute(m[:k])) for 0 <= k <= len(m)
SumAbs(m, k) == IF k = 0 THEN 0 ELSE SumAbs(m, k - 1) + Abs(m[k])

\* numpy.sum(numpy.absolute(m[:c])): a negative c counts from the end
SliceEnd(m, c) ==
  IF c < 0 THEN Max(Len(m) + c, 0) ELSE IF c > Len(m) THEN Len(m) ELSE c

\* lines 1327 and 1333: flat index of the first parameter of component c
StartOf(m, c) == SumAbs(m, SliceEnd(m, c))

\* mutation of TieGroup: the members are tied to the slot of the last one
TieGroup_last(t, grp, tc, cm, g, off) ==
  LET idx == {k \in DOMAIN grp : grp[k] = g}
      last == CHOOSE k \in idx : \A q \in idx : q <= k
      ref == StartOf(cm, tc[last]) + off
      slots == {StartOf(cm, tc[k]) + off : k \in idx \ {last}}
  IN  IF Cardinality(idx) > 1
        THEN [p \in DOMAIN t |-> IF p - 1 \in slots THEN ref ELSE t[p]]
        ELSE t

\* lines 1325-1328 (off = 0, grp = tpl_vgrp) and 1331-1334 (off = 1, grp =
\* tpl_sgrp): one entry of parn per template of group g, the entries after
\* the first are set to 'p[parn[0]]'
TieGroup(t, grp, tc, cm, g, off) ==
  LET idx == {k \in DOMAIN grp : grp[k] = g}
      first == CHOOSE k \in idx : \A q \in idx : k <= q
      ref == StartOf(cm, tc[first]) + off
      slots == {StartOf(cm, tc[k]) + off : k \in idx \ {first}}
  IN  IF Cardinality(idx) > 1
        THEN [p \in DOMAIN t |-> IF p - 1 \in slots THEN ref ELSE t[p]]
        ELSE t

\* lines 1327-1328, 1333-1334: parn[1:] holds an index outside of tied
TieOutOfRange(t, grp, tc, cm, g, off) ==
  LET idx == {k \in DOMAIN grp : grp[k] = g}
  IN  /\ Cardinality(idx) > 1
      /\ \E k \in idx : StartOf(cm, tc[k]) + off >= Len(t)

RECURSIVE TieLoop(_, _, _, _, _, _)
\* lines 1320-1334: the loop over i = g, ..., ncomp-1
TieLoop(t, g, tc, tv, ts, cm) ==
  IF g >= Len(cm) THEN t
  ELSE IF cm[g + 1] < 0 THEN TieLoop(t, g + 1, tc, tv, ts, cm)
  ELSE TieLoop(TieGroup(TieGroup(t, tv, tc, cm, g, 0), ts, tc, cm, g, 1),
               g + 1, tc, tv, ts, cm)

\* line 1318: numpy.empty(npar_kin, dtype=object), every entry None
EmptyTied(cm) == [p \in 1..SumAbs(cm, Len(cm)) |-> Free]

\* an assignment of lines 1328 or 1334 raises IndexError
TieRaises(tc, tv, ts, cm) ==
  \E g \in 0..(Len(cm) - 1) :
    /\ cm[g + 1] >= 0
    /\ \/ TieOutOfRange(EmptyTied(cm), tv, tc, cm, g, 0)
       \/ TieOutOfRange(EmptyTied(cm), ts, tc, cm, g, 1)

\* lines 1317-1336: the flat tied vector
TiedVector(tc, tv, ts, cm) == TieLoop(EmptyTied(cm), 0, tc, tv, ts, cm)

\* line 1337
FreeCount(t) == Cardinality({p \in DOMAIN t : t[p] = Free})

RECURSIVE SumNegative(_, _)
\* numpy.sum(comp_moments[comp_moments < 0]) over the first k components
SumNegative(m, k) ==
  IF k = 0 THEN 0 ELSE SumNegative(m, k - 1) + (IF m[k] < 0 THEN m[k] ELSE 0)

\* mutation of DegreesOfFreedom: the moments of the fixed components are added
DegreesOfFreedom_added(nfree, cm, md, d) ==
  nfree - SumNegative(cm, Len(cm)) + Max(md, 0) + (IF d >= 0 THEN d + 1 ELSE 0)

\* lines 1341-1344
DegreesOfFreedom(nfree, cm, md, d) ==
  nfree + SumNegative(cm, Len(cm)) + Max(md, 0) + (IF d >= 0 THEN d + 1 ELSE 0)

----------------------------------------------------------------------------
(* Sasuke._fit_all_spectra, _run_fit_iteration, _is_near_bounds and        *)
(* _save_results.  A PPXFFitResult is the string "empty" (built from None, *)
(* no fit), "failed" (the optimizer reports that it did not converge) or   *)
(* "ok"; "none" is the entry None of the array of results.                 *)

\* Largest number of spectra in a batch.
NSpectra == 2
\* Largest number of good pixels of a spectrum.
MaxPix == 5
\* Largest initial-guess velocity of a spectrum (in pixels).
MaxGuess == 1

\* the databases of the batches: one Primary line; a Primary line and a
\* TieKinematics line; a Primary line and a TieVelocity line
FitLayouts ==
  LET P == [action |-> "f", code |-> "f", target |-> NoTarget]
      T(c) == [action |-> "f", code |-> c, target |-> 1]
  IN  {<<P>>, <<P, T("k")>>, <<P, T("v")>>}

\* what a call of ppxf does: it returns a converged fit, returns a fit that
\* did not converge, or raises
PPXFOutcomes == {"ok", "failed", "raise"}

\* PPXFFitResult.empty_fit()
EmptyFit(r) == r = "empty"

\* PPXFFitResult.fit_failed(): anything but a successful fit
FitFailed(r) == r \in {"empty", "failed"}

\* line 555
Insufficient(g, d, n) == g < d + n

\* mutation of RefitSelection: every spectrum selected for the first pass is
\* fitted again
RefitSelection_all(tofit, res) == tofit

\* line 633: obj_to_fit &= invert([r is None or r.fit_failed() for r in result])
RefitSelection(tofit, res) ==
  [s \in DOMAIN tofit |-> tofit[s] /\ ~(res[s] = "none" \/ FitFailed(res[s]))]

\* lines 1271-1272: limits of the velocity and of the velocity dispersion
velocity_limits == <<-2, 2>>
sigma_limits == <<1, 3>>

\* lines 759-780: lbound (side = 1) and ubound (side = 2); every component
\* has two moments when there are no stellar templates
BoundVector(cm, side) ==
  [p \in 1..SumAbs(cm, Len(cm)) |->
     IF \E c \in 0..(Len(cm) - 1) : StartOf(cm, c) = p - 1
       THEN velocity_limits[side]
       ELSE sigma_limits[side]]

\* lines 773-774 and 788: flat index of the parameter that defines each
\* parameter, read back from the entries '' and 'p[q]' of the tied vector
ParIndx(t) == [p \in DOMAIN t |-> IF t[p] = Free THEN p - 1 ELSE t[p]]

\* lines 766 and 775: the defining velocity parameters
VelIndx(t, cm) ==
  [p \in DOMAIN t |->
     \E c \in 0..(Len(cm) - 1) : ParIndx(t)[StartOf(cm, c) + 1] = p - 1]

\* lines 675-678: bound[vel_indx] += kininp[vel_indx] on the array of the
\* caller; the initial-guess velocity g is the same for every component
\* (line 1291)
OffsetBounds(bound, vi, g) ==
  [p \in DOMAIN bound |-> IF vi[p] THEN bound[p] + g ELSE bound[p]]

\* line 776: the defining velocity-dispersion parameters
SigIndx(t, cm) ==
  [p \in DOMAIN t |->
     \E c \in 0..(Len(cm) - 1) : ParIndx(t)[StartOf(cm, c) + 2] = p - 1]

\* the fits of a spectrum of initial-guess velocity g that ppxf may return,
\* <<velocity, velocity dispersion>> of every component: inside of the
\* limits, at the lower limit of the dispersion, at the upper limit of the
\* velocity
KinFits(g) ==
  {<<g, sigma_limits[1] + 1>>,
   <<g, sigma_limits[1]>>,
   <<g + velocity_limits[2], sigma_limits[1] + 1>>}

\* line 850: result[i].kin flattened, every component with the fit f
KinVector(cm, f) ==
  [p \in 1..SumAbs(cm, Len(cm)) |->
     IF \E c \in 0..(Len(cm) - 1) : StartOf(cm, c) = p - 1 THEN f[1] ELSE f[2]]

\* lines 681-687: kin - _lbound < tol with tol = Db*tol_frac, tol_frac =
\* 1e-2; Db is ubound - lbound, and log10(ubound) - log10(lbound) where
\* sig_indx is set, which for integer limits is a tolerance between 0 and 1
NearLowerBound(kin, lb, ub, sig) ==
  [p \in DOMAIN kin |->
     IF sig[p] THEN kin[p] - lb[p] <= 0
               ELSE 100 * (kin[p] - lb[p]) < ub[p] - lb[p]]

\* line 689: near_lower_bound | (_ubound - kin < tol)
NearBound(kin, lb, ub, sig) ==
  [p \in DOMAIN kin |->
     \/ NearLowerBound(kin, lb, ub, sig)[p]
     \/ IF sig[p] THEN ub[p] - kin[p] <= 0
                  ELSE 100 * (ub[p] - kin[p]) < ub[p] - lb[p]]

\* lines 875 and 916: the test of MIN_SIGMA over the flat indices P
MinSigma(nl, sig, P) == \E q \in P : nl[q + 1] /\ sig[q + 1]

\* lines 880-881 and 919-920: the test of NEAR_BOUND over the flat indices P
NearBoundFlag(nb, nl, sig, P) ==
  \E q \in P : (nl[q + 1] /\ ~sig[q + 1]) \/ (nb[q + 1] /\ ~nl[q + 1])

\* the flags of lines 875-884 or 916-922
BoundFlags(nb, nl, sig, P) ==
  (IF MinSigma(nl, sig, P) THEN {"MIN_SIGMA"} ELSE {})
    \cup (IF NearBoundFlag(nb, nl, sig, P) THEN {"NEAR_BOUND"} ELSE {})

\* lines 850 and 890-892: the units of model_fit_par['KIN'][i] after the
\* conversion of the entries of vel_indx from pixels to cz; "zero" is the
\* value left by init_record_array
ConvertedUnits(t, cm) ==
  [p \in DOMAIN t |-> IF VelIndx(t, cm)[p] THEN "cz" ELSE "pix"]

\* lines 1263-1264 and 1301: the component of each line, -1 for a line that
\* is not fitted; etpl.comp[-1] is the last entry of etpl.comp
EmlCompi(D, tp, cp, ns) ==
  [j \in DOMAIN D |->
     IF D[j].action = "f" THEN At(cp, tp[j]) + (IF ns = 0 THEN 0 ELSE 1) ELSE -1]

\* instrumental dispersion of the templates at the lines (line 369)
TemplateSigmaInst == 2
\* instrumental dispersion of a spectrum at the fitted lines (line 926)
ObjectSigmaInst == {1, 3}

\* lines 937-942: the square of SIGMACORR, the masked square root filled
\* with 0
SigmaCorr2(so) ==
  IF so * so - TemplateSigmaInst * TemplateSigmaInst < 0 THEN 0
  ELSE so * so - TemplateSigmaInst * TemplateSigmaInst

\* lines 699-704 with rng = [0, 400]: the corrected dispersion of a line with
\* dispersion sg and squared correction c2 is out of range
BadSigma(sg, c2) == sg * sg - c2 < 0 \/ sg * sg - c2 > 400 * 400

\* the outputs of Sasuke.fit at line 1446 and at line 1416
FitOutputs ==
  <<"obj_wave", "model_flux", "model_eml_flux", "model_mask", "model_fit_par",
    "model_eml_par">>
EarlyOutputs ==
  <<"obj_wave", "model_flux", "model_eml_flux", "model_mask", "model_eml_par">>

\* what initialize_pixels_to_fit reports for n spectra: the spectra that
\* ended in error are none, the first one, or all
ErrorChoices(n) == {{}, {1}, 1..n}

----------------------------------------------------------------------------
VARIABLES
  db,        \* the emldb argument of build_templates
  assigned,  \* attributes of the object that are no longer None
  ntpl, tpli, comp, vgrp, sgrp, flux,   \* attributes of EmissionLineTemplates
  finished,  \* local array of _parse_emission_line_database
  i,         \* row of the for loop (1-based), NLines+1 after the last row
  pc,        \* position in build_templates
  err,       \* exception that ended build_templates, "" when none
  warned,    \* warnings.warn was called for mode w
  passes,    \* passes of the while loop started so far (saturates at MaxPasses)
  before,    \* number of finished lines when the current pass started
  stalled,   \* some completed pass finished no line
  fpc,       \* position in Sasuke.fit, "none" outside of Sasuke.fit
  nstpl, tpl_comp, tpl_vgrp, tpl_sgrp, comp_moments,   \* attributes of Sasuke
  degree, mdegree, tied, tied_none, nfree_kin, dof,    \* attributes of Sasuke
  nobj,         \* number of spectra
  reject,       \* reject_boxcar is not None
  ntpl_to_use,  \* numpy.sum(tpl_to_use[i,:]), the same for every spectrum
  obj_to_fit,   \* self.obj_to_fit
  to_fit2,      \* the copy obj_to_fit of _fit_all_spectra
  result,       \* results of the first call of _run_fit_iteration
  refit,        \* results of the second call of _run_fit_iteration
  calls,        \* calls[p][s]: calls of ppxf for spectrum s in pass p
  gpm,          \* len(gpm) of the spectrum examined last
  fpass,        \* 1 in the first call of _run_fit_iteration, 2 in the second
  fi,           \* spectrum of the loop of _run_fit_iteration (1-based)
  si,           \* spectrum of the loop of _save_results (1-based)
  lbound, ubound,   \* the vectors lbound and ubound of _save_results
  kininp,       \* initial-guess velocity of each spectrum, KININP[s][0]
  vbounds,      \* velocity bounds used in the near-bound check of each spectrum
  model_mask, fit_mask, eml_mask,  \* flags of model_mask[s,:] and of the rows
                                   \* model_fit_par['MASK'][s], model_eml_par['MASK'][s]
  model_fit_par,   \* the columns TPLWGT and KIN of model_fit_par
  model_eml_par,   \* the columns FLUX, KIN[:,:,1], SIGMACORR and MASK[s,j] of
                   \* model_eml_par
  negative_corr,   \* the warning of line 940 was given for spectrum s
  output           \* what Sasuke.fit returned, <<>> before it returns

\* the variables of EmissionLineTemplates
tplvars == <<db, assigned, ntpl, tpli, comp, vgrp, sgrp, flux, finished, i, pc, err,
             warned, passes, before, stalled>>

\* the variables of the set-up of Sasuke.fit
cmpvars == <<nstpl, tpl_comp, tpl_vgrp, tpl_sgrp, comp_moments, degree, mdegree,
             tied, tied_none, nfree_kin, dof>>

\* the variables of the fits and of the saved output
loopvars == <<nobj, reject, ntpl_to_use, obj_to_fit, to_fit2, result, refit, calls,
              gpm, fpass, fi, si, lbound, ubound, kininp, vbounds, model_mask,
              fit_mask, eml_mask>>

\* the records of the output and the returned tuple
outvars == <<model_fit_par, model_eml_par, negative_corr, output>>

\* the variables of Sasuke
sasuke == <<cmpvars, loopvars, outvars, fpc>>

vars == <<tplvars, sasuke>>

\* no call of Sasuke.fit
NoFit ==
  /\ nstpl = 0
  /\ tpl_comp = <<>>
  /\ tpl_vgrp = <<>>
  /\ tpl_sgrp = <<>>
  /\ comp_moments = <<>>
  /\ degree = -1
  /\ mdegree = 0
  /\ tied = <<>>
  /\ tied_none = TRUE
  /\ nfree_kin = 0
  /\ dof = 0

\* nothing fitted and nothing saved for n spectra
NoResults(n) ==
  /\ nobj = n
  /\ to_fit2 = [s \in 1..n |-> FALSE]
  /\ result = [s \in 1..n |-> "none"]
  /\ refit = [s \in 1..n |-> "none"]
  /\ calls = [p \in 1..2 |-> [s \in 1..n |-> 0]]
  /\ gpm = 0
  /\ fpass = 1
  /\ fi = 1
  /\ si = 1
  /\ lbound = <<>>
  /\ ubound = <<>>
  /\ kininp = [s \in 1..n |-> 0]
  /\ vbounds = [s \in 1..n |-> <<>>]
  /\ model_mask = [s \in 1..n |-> {}]
  /\ fit_mask = [s \in 1..n |-> {}]
  /\ eml_mask = [s \in 1..n |-> {}]

\* lines 1381-1392: the records left by init_record_array; a flux <<>> is
\* the initial 0, a flux <<k, j>> is tplwgt[k] * emldb['flux'][j]
NoOutput ==
  /\ model_fit_par =
       [s \in 1..nobj |-> [TPLWGT |-> "zero", KIN |-> [p \in DOMAIN tied |-> "zero"]]]
  /\ model_eml_par =
       [s \in 1..nobj |->
          [j \in DOMAIN db |-> [FLUX |-> <<>>, SIGMA |-> 0, SIGMACORR2 |-> 0, MASK |-> {}]]]
  /\ negative_corr = [s \in 1..nobj |-> FALSE]
  /\ output = <<>>

\* no spectra
NoSpectra ==
  /\ NoResults(0)
  /\ reject = FALSE
  /\ ntpl_to_use = 0
  /\ obj_to_fit = <<>>

\* an object on which build_templates has not been called
NoTemplates ==
  /\ assigned = {}
  /\ ntpl = 0
  /\ tpli = <<>>
  /\ comp = <<>>
  /\ vgrp = <<>>
  /\ sgrp = <<>>
  /\ flux = <<>>
  /\ finished = <<>>
  /\ i = 0
  /\ pc = "start"
  /\ err = ""
  /\ warned = FALSE
  /\ passes = 0
  /\ before = 0
  /\ stalled = FALSE

\* the arrays of the resolver as one record
Cur ==
  [ntpl |-> ntpl, tpli |-> tpli, comp |-> comp, vgrp |-> vgrp, sgrp |-> sgrp,
   finished |-> finished, err |-> "", set |-> assigned]

Store(r) ==
  /\ ntpl' = r.ntpl
  /\ tpli' = r.tpli
  /\ comp' = r.comp
  /\ vgrp' = r.vgrp
  /\ sgrp' = r.sgrp
  /\ finished' = r.finished
  /\ err' = r.err

\* lines 128-157: a new object, build_templates called with a database
Init ==
  /\ \E n \in 1..NLines : \E c \in [1..n -> LineChoices(n)] : db = MakeDatabase(c)
  /\ NoTemplates
  /\ NoFit
  /\ NoSpectra
  /\ NoOutput
  /\ fpc = "none"

\* line 347: check_database
CheckDatabase ==
  /\ pc = "start"
  /\ IF CheckDatabasePasses(db)
       THEN /\ pc' = "checked"
            /\ err' = ""
            /\ warned' = HasWeakIndependent(db)
       ELSE /\ pc' = "error"
            /\ err' = "ValueError"
            /\ warned' = FALSE
  /\ UNCHANGED <<db, assigned, ntpl, tpli, comp, vgrp, sgrp, flux, finished, i,
                 passes, before, stalled>>
  /\ UNCHANGED sasuke

\* what follows a false while condition: line 269, then back in build_templates
AfterLoop(r) == IF DebugFails(r) THEN "error" ELSE "parsed"

\* lines 349-351 and 206-230: save the database, set up the arrays, first
\* test of the while condition
ParseDatabase ==
  /\ pc = "checked"
  /\ LET r == ParseInit(db)
     IN  /\ ntpl' = r.ntpl
         /\ tpli' = r.tpli
         /\ comp' = r.comp
         /\ vgrp' = r.vgrp
         /\ sgrp' = r.sgrp
         /\ finished' = r.finished
         /\ assigned' = r.set \cup {"emldb"}
         /\ before' = Count(r.finished)
         /\ IF r.err # ""
              THEN pc' = "error" /\ err' = r.err /\ i' = 0 /\ passes' = 0
            ELSE IF AllFinished(r)
              THEN /\ pc' = AfterLoop(r)
                   /\ err' = IF DebugFails(r) THEN "ValueError" ELSE ""
                   /\ i' = 0
                   /\ passes' = 0
            ELSE pc' = "loop" /\ err' = "" /\ i' = 1 /\ passes' = 1
  /\ UNCHANGED <<db, flux, warned, stalled>>
  /\ UNCHANGED sasuke

\* lines 232-266: one iteration of the for loop
ProcessLine ==
  /\ pc = "loop"
  /\ i <= Len(db)
  /\ LET r == LineStep(db, Cur, i)
     IN  /\ Store(r)
         /\ pc' = IF r.err # "" THEN "error" ELSE "loop"
         /\ i' = IF r.err # "" THEN i ELSE i + 1
  /\ UNCHANGED <<db, assigned, flux, warned, passes, before, stalled>>
  /\ UNCHANGED sasuke

\* line 230 after a pass of the for loop: leave the loop or start another pass
EndPass ==
  /\ pc = "loop"
  /\ i = Len(db) + 1
  /\ stalled' = (stalled \/ Count(finished) = before)
  /\ IF AllFinished(Cur)
       THEN /\ pc' = AfterLoop(Cur)
            /\ err' = IF DebugFails(Cur) THEN "ValueError" ELSE ""
            /\ UNCHANGED <<i, passes, before>>
       ELSE /\ pc' = "loop"
            /\ err' = ""
            /\ i' = 1
            /\ passes' = IF passes < MaxPasses THEN passes + 1 ELSE passes
            /\ before' = Count(finished)
  /\ UNCHANGED <<db, assigned, ntpl, tpli, comp, vgrp, sgrp, flux, finished, warned>>
  /\ UNCHANGED sasuke

\* lines 359-366: numpy.amax of the empty arrays comp, vgrp and sgrp raises
\* when the counts are logged
LogRaises(quiet) == ~quiet /\ comp = <<>>

\* lines 142 and 369: the interpolator of sigma_inst raises for a rest
\* wavelength outside of wave
InterpolationRaises(D) == \E r \in DOMAIN D : D[r].restwave = "out"

\* lines 353-387: the log messages, the instrumental dispersion at the lines
\* and the templates, for either value of the argument quiet
BuildTemplateFlux ==
  /\ pc = "parsed"
  /\ \E quiet \in BOOLEAN :
       IF LogRaises(quiet) \/ InterpolationRaises(db)
         THEN /\ pc' = "error"
              /\ err' = "ValueError"
              /\ UNCHANGED <<flux, assigned>>
         ELSE /\ flux' = BuildFlux(ntpl, tpli)
              /\ assigned' = assigned \cup {"flux", "eml_sigma_inst"}
              /\ pc' = "done"
              /\ err' = ""
  /\ UNCHANGED <<db, ntpl, tpli, comp, vgrp, sgrp, finished, i, warned,
                 passes, before, stalled>>
  /\ UNCHANGED sasuke

Next == CheckDatabase \/ ParseDatabase \/ ProcessLine \/ EndPass \/ BuildTemplateFlux

Spec == Init /\ [][Next]_vars

\* build_templates called with a database of fitted lines, some of them
\* outside of the wavelength range of the template grid
WaveInit ==
  /\ \E n \in 1..NLines : \E c \in [1..n -> WaveLineChoices(n)] :
       \E S \in SUBSET (1..n) : db = OutOfRange(MakeDatabase(c), S)
  /\ NoTemplates
  /\ NoFit
  /\ NoSpectra
  /\ NoOutput
  /\ fpc = "none"

WaveSpec == WaveInit /\ [][Next]_vars

TypeOK ==
  /\ pc \in {"start", "checked", "loop", "parsed", "done", "error"}
  /\ (pc = "error") = (err # "")

----------------------------------------------------------------------------
(* _parse_emission_line_database as a function of the database, to compare *)
(* the result for different row orders.                                    *)

RECURSIVE RunPass(_, _, _)
\* lines 232-266: the for loop from row i on, left at the first exception
RunPass(D, r, k) ==
  IF k > Len(D) \/ r.err # "" THEN r ELSE RunPass(D, LineStep(D, r, k), k + 1)

RECURSIVE RunLoop(_, _)
\* lines 230-270: the while loop and the check after it; a pass that changes
\* nothing is repeated for ever ("Diverges")
RunLoop(D, r) ==
  IF r.err # "" THEN r
  ELSE IF AllFinished(r)
    THEN [r EXCEPT !.err = IF DebugFails(r) THEN "ValueError" ELSE ""]
  ELSE LET r2 == RunPass(D, r, 1)
       IN  IF r2 = r THEN [r EXCEPT !.err = "Diverges"] ELSE RunLoop(D, r2)

\* lines 206-270
Resolve(D) == RunLoop(D, ParseInit(D))

----------------------------------------------------------------------------
(* Sasuke.fit up to the call of _fit_all_spectra.                          *)

\* lines 1171-1258: Sasuke.fit called with a database of fitted lines, the
\* EmissionLineTemplates object is about to be built
TieInit ==
  /\ \E n \in 1..NLines : \E c \in [1..n -> FittedLineChoices(n)] : db = MakeDatabase(c)
  /\ NoTemplates
  /\ NoFit
  /\ NoSpectra
  /\ NoOutput
  /\ fpc = "templates"

\* lines 1283-1306: the template stack and the moments of the components,
\* with ns stellar templates of sm moments
SetComponents ==
  /\ fpc = "templates"
  /\ pc = "done"
  /\ \E ns \in 0..MaxStellar : \E sm \in StellarMoments :
       /\ nstpl' = ns
       /\ tpl_comp' = StackGroups(ns, comp)
       /\ tpl_vgrp' = StackGroups(ns, vgrp)
       /\ tpl_sgrp' = StackGroups(ns, sgrp)
       /\ IF StackGroups(ns, comp) = <<>>
            THEN \* numpy.amax of an empty array
                 /\ comp_moments' = <<>>
                 /\ fpc' = "error"
                 /\ err' = "ValueError"
            ELSE /\ comp_moments' = ComponentMoments(ns, sm, StackGroups(ns, comp))
                 /\ fpc' = "components"
                 /\ err' = ""
  /\ UNCHANGED <<db, assigned, ntpl, tpli, comp, vgrp, sgrp, flux, finished, i, pc,
                 warned, passes, before, stalled>>
  /\ UNCHANGED <<degree, mdegree, tied, tied_none, nfree_kin, dof>>
  /\ UNCHANGED <<loopvars, outvars>>

\* lines 1274-1275 and 1316-1353: the tied vector, the number of free
\* parameters and the degrees of freedom, for the arguments degree = d and
\* mdegree = md
CompileTied ==
  /\ fpc = "components"
  /\ \E d \in Degrees : \E md \in MDegrees :
       /\ degree' = d
       /\ mdegree' = md
       /\ IF TieRaises(tpl_comp, tpl_vgrp, tpl_sgrp, comp_moments)
            THEN /\ fpc' = "error"
                 /\ err' = "IndexError"
                 /\ UNCHANGED <<tied, tied_none, nfree_kin, dof>>
            ELSE LET t == TiedVector(tpl_comp, tpl_vgrp, tpl_sgrp, comp_moments)
                 IN  /\ tied' = t
                     /\ nfree_kin' = FreeCount(t)
                     /\ dof' = DegreesOfFreedom(FreeCount(t), comp_moments, md, d)
                     /\ tied_none' = (FreeCount(t) = Len(t))
                     /\ fpc' = "compiled"
                     /\ err' = ""
  /\ UNCHANGED <<db, assigned, ntpl, tpli, comp, vgrp, sgrp, flux, finished, i, pc,
                 warned, passes, before, stalled>>
  /\ UNCHANGED <<nstpl, tpl_comp, tpl_vgrp, tpl_sgrp, comp_moments>>
  /\ UNCHANGED <<loopvars, outvars>>

\* line 1433: _fit_all_spectra is called, the optimizer may run from here on
FitAllSpectra ==
  /\ fpc = "compiled"
  /\ fpc' = "fitting"
  /\ UNCHANGED <<tplvars, cmpvars, loopvars, outvars>>

TieNext == Next \/ SetComponents \/ CompileTied \/ FitAllSpectra

TieSpec == TieInit /\ [][TieNext]_vars

----------------------------------------------------------------------------
(* Sasuke.fit from the initialisation of the output (line 1374) to its     *)
(* return.                                                                 *)

\* line 1396 is reached for a batch of n spectra: no stellar templates,
\* degree = -1, mdegree = 0, the templates of a database of FitLayouts built,
\* its tied vector compiled and the output records initialised
FitInit ==
  /\ \E n \in 1..NSpectra :
       /\ NoResults(n)
       /\ obj_to_fit \in [1..n -> BOOLEAN]
  /\ reject \in BOOLEAN
  /\ \E m \in FitLayouts :
       LET D == MakeDatabase(m)
           r == Resolve(D)
           cm == ComponentMoments(0, moments, r.comp)
           t == TiedVector(r.comp, r.vgrp, r.sgrp, cm)
       IN  /\ db = D
           /\ assigned = r.set \cup {"emldb", "flux", "eml_sigma_inst"}
           /\ ntpl = r.ntpl
           /\ tpli = r.tpli
           /\ comp = r.comp
           /\ vgrp = r.vgrp
           /\ sgrp = r.sgrp
           /\ flux = BuildFlux(r.ntpl, r.tpli)
           /\ tpl_comp = r.comp
           /\ tpl_vgrp = r.vgrp
           /\ tpl_sgrp = r.sgrp
           /\ comp_moments = cm
           /\ tied = t
           /\ tied_none = (FreeCount(t) = Len(t))
           /\ nfree_kin = FreeCount(t)
           /\ dof = DegreesOfFreedom(FreeCount(t), cm, 0, -1)
           /\ ntpl_to_use = r.ntpl
  /\ nstpl = 0
  /\ degree = -1
  /\ mdegree = 0
  /\ finished = <<>>
  /\ i = 0
  /\ pc = "done"
  /\ err = ""
  /\ warned = FALSE
  /\ passes = 0
  /\ before = 0
  /\ stalled = FALSE
  /\ NoOutput
  /\ fpc = "pixels"

\* turn_on for the rows S of a MASK column
TurnOnRows(mask, S, flag) ==
  [s \in DOMAIN mask |-> IF s \in S THEN mask[s] \cup {flag} ELSE mask[s]]

\* lines 1396-1416: initialize_pixels_to_fit ends in error for the spectra of
\* E; Sasuke.fit returns when these are all the spectra
InitializePixels ==
  /\ fpc = "pixels"
  /\ \E E \in ErrorChoices(nobj) :
       /\ fit_mask' = TurnOnRows(fit_mask, E, "NO_FIT")
       /\ eml_mask' = TurnOnRows(eml_mask, E, "NO_FIT")
       /\ IF E = 1..nobj
            THEN fpc' = "early_return" /\ output' = EarlyOutputs
            ELSE fpc' = "fitting" /\ UNCHANGED output
  /\ UNCHANGED <<tplvars, cmpvars, nobj, reject, ntpl_to_use, obj_to_fit, to_fit2,
                 result, refit, calls, gpm, fpass, fi, si, lbound, ubound, kininp,
                 vbounds, model_mask, model_fit_par, model_eml_par, negative_corr>>

\* the spectra to fit and the results of the pass under way
ToFit == IF fpass = 1 THEN obj_to_fit ELSE to_fit2
PassResult == IF fpass = 1 THEN result ELSE refit

\* result[fi] = r in the pass under way
SetResult(r) ==
  IF fpass = 1
    THEN result' = [result EXCEPT ![fi] = r] /\ UNCHANGED refit
    ELSE refit' = [refit EXCEPT ![fi] = r] /\ UNCHANGED result

\* lines 543-600: one iteration of the loop of _run_fit_iteration
FitSpectrum ==
  /\ fpc = "fitting"
  /\ fi <= nobj
  /\ IF ~ToFit[fi]
       THEN \* lines 546-548
            /\ SetResult("none")
            /\ fi' = fi + 1
            /\ UNCHANGED <<gpm, calls, fpc, err>>
       ELSE \E g \in 0..MaxPix :
              /\ gpm' = g
              /\ IF Insufficient(g, dof, ntpl_to_use)
                   THEN \* lines 555-562
                        /\ SetResult("empty")
                        /\ fi' = fi + 1
                        /\ UNCHANGED <<calls, fpc, err>>
                   ELSE \* lines 576-588; an exception of ppxf is not caught
                        \E out \in PPXFOutcomes :
                          /\ calls' = [calls EXCEPT ![fpass][fi] = @ + 1]
                          /\ IF out = "raise"
                               THEN /\ fpc' = "error"
                                    /\ err' = "PPXFError"
                                    /\ UNCHANGED <<result, refit, fi>>
                               ELSE /\ SetResult(out)
                                    /\ fi' = fi + 1
                                    /\ UNCHANGED <<fpc, err>>
  /\ UNCHANGED <<db, assigned, ntpl, tpli, comp, vgrp, sgrp, flux, finished, i, pc,
                 warned, passes, before, stalled>>
  /\ UNCHANGED <<cmpvars, nobj, reject, ntpl_to_use, obj_to_fit, to_fit2, fpass, si,
                 lbound, ubound, kininp, vbounds, model_mask, fit_mask, eml_mask>>
  /\ UNCHANGED outvars

\* lines 603 and 620-647: _run_fit_iteration returns; after the first pass
\* with rejection the spectra to fit again are selected, the outliers are
\* rejected and the second pass starts, otherwise _fit_all_spectra returns
EndIteration ==
  /\ fpc = "fitting"
  /\ fi = nobj + 1
  /\ IF fpass = 1 /\ reject
       THEN /\ to_fit2' = RefitSelection(obj_to_fit, result)
            /\ fpass' = 2
            /\ fi' = 1
            /\ UNCHANGED fpc
       ELSE /\ fpc' = "fitted"
            /\ UNCHANGED <<to_fit2, fpass, fi>>
  /\ UNCHANGED <<tplvars, cmpvars, nobj, reject, ntpl_to_use, obj_to_fit, result,
                 refit, calls, gpm, si, lbound, ubound, kininp, vbounds, model_mask,
                 fit_mask, eml_mask>>
  /\ UNCHANGED outvars

\* the array returned by _fit_all_spectra
FitResult == IF reject THEN refit ELSE result

\* lines 723-788: what _save_results does before its loop over the spectra;
\* line 773 subscripts self.tied, which is None when no parameter is tied
SaveSetup ==
  /\ fpc = "fitted"
  /\ IF tied_none
       THEN /\ fpc' = "error"
            /\ err' = "TypeError"
            /\ UNCHANGED <<lbound, ubound>>
       ELSE /\ fpc' = "saving"
            /\ err' = ""
            /\ lbound' = BoundVector(comp_moments, 1)
            /\ ubound' = BoundVector(comp_moments, 2)
  /\ si' = 1
  /\ UNCHANGED <<db, assigned, ntpl, tpli, comp, vgrp, sgrp, flux, finished, i, pc,
                 warned, passes, before, stalled>>
  /\ UNCHANGED <<cmpvars, nobj, reject, ntpl_to_use, obj_to_fit, to_fit2, result,
                 refit, calls, gpm, fpass, fi, kininp, vbounds, model_mask, fit_mask,
                 eml_mask>>
  /\ UNCHANGED outvars

\* turn_on for spectrum si
TurnOn(mask, flag) == [mask EXCEPT ![si] = @ \cup {flag}]

\* turn_on of every flag of F for spectrum si
TurnOnAll(mask, F) == [mask EXCEPT ![si] = @ \cup F]

\* self.eml_compi
eml_compi == EmlCompi(db, tpli, comp, nstpl)

\* lines 896-922 and 941: the row of model_eml_par of a spectrum with fitted
\* kinematics kin, near-bound arrays nb and nl and instrumental dispersion so
LineRecords(old, kin, nb, nl, so) ==
  LET pix == ParIndx(tied)
      sig == SigIndx(tied, comp_moments)
      indx(j) == {pix[StartOf(comp_moments, eml_compi[j]) + 1],
                  pix[StartOf(comp_moments, eml_compi[j]) + 2]}
  IN  [j \in DOMAIN db |->
         IF db[j].action # "f" THEN old[j]
         ELSE [FLUX |-> <<eml_compi[j], j>>,
               SIGMA |-> kin[pix[StartOf(comp_moments, eml_compi[j]) + 2] + 1],
               SIGMACORR2 |-> SigmaCorr2(so),
               MASK |-> old[j].MASK \cup BoundFlags(nb, nl, sig, indx(j))]]

\* lines 792-942: one iteration of the loop of _save_results; a failed fit
\* is flagged and then treated like a successful one (no continue after line
\* 816); the spectrum has the initial-guess velocity g, the fitted kinematics
\* f and the instrumental dispersion so at the lines
SaveSpectrum ==
  /\ fpc = "saving"
  /\ si <= nobj
  /\ si' = si + 1
  /\ IF FitResult[si] = "none"
       THEN \* lines 797-799
            /\ model_mask' = TurnOn(model_mask, "NO_FIT")
            /\ UNCHANGED <<fit_mask, eml_mask, lbound, ubound, kininp, vbounds,
                           model_fit_par, model_eml_par, negative_corr>>
     ELSE IF EmptyFit(FitResult[si])
       THEN \* lines 802-808
            /\ model_mask' = TurnOn(model_mask, "NO_FIT")
            /\ fit_mask' = TurnOn(fit_mask, "INSUFFICIENT_DATA")
            /\ eml_mask' = TurnOn(eml_mask, "INSUFFICIENT_DATA")
            /\ UNCHANGED <<lbound, ubound, kininp, vbounds, model_fit_par,
                           model_eml_par, negative_corr>>
     ELSE \E g \in 0..MaxGuess : \E f \in KinFits(g) : \E so \in ObjectSigmaInst :
            LET failed == IF FitFailed(FitResult[si]) THEN {"FIT_FAILED"} ELSE {}
                vel == VelIndx(tied, comp_moments)
                sig == SigIndx(tied, comp_moments)
                kin == KinVector(comp_moments, f)
                lb == OffsetBounds(lbound, vel, g)
                ub == OffsetBounds(ubound, vel, g)
                nl == NearLowerBound(kin, lb, ub, sig)
                nb == NearBound(kin, lb, ub, sig)
                near == BoundFlags(nb, nl, sig, 0..(Len(tied) - 1))
            IN  \* lines 811-816 and 875-884
                /\ model_mask' = TurnOnAll(model_mask, failed \cup (near \cap {"NEAR_BOUND"}))
                /\ fit_mask' = TurnOnAll(fit_mask, failed \cup near)
                /\ eml_mask' = TurnOnAll(eml_mask, failed)
                \* lines 841 and 850, 890-892
                /\ model_fit_par' =
                     [model_fit_par EXCEPT ![si] =
                        [TPLWGT |-> "tplwgt",
                         KIN |-> ConvertedUnits(tied, comp_moments)]]
                \* line 848
                /\ kininp' = [kininp EXCEPT ![si] = g]
                \* lines 867-869 and 675-678
                /\ lbound' = lb
                /\ ubound' = ub
                /\ vbounds' = [vbounds EXCEPT ![si] = <<lb, ub>>]
                \* lines 896-942
                /\ model_eml_par' =
                     [model_eml_par EXCEPT ![si] = LineRecords(@, kin, nb, nl, so)]
                /\ negative_corr' =
                     [negative_corr EXCEPT
                        ![si] = so * so - TemplateSigmaInst * TemplateSigmaInst < 0]
  /\ UNCHANGED <<tplvars, cmpvars, nobj, reject, ntpl_to_use, obj_to_fit, to_fit2,
                 result, refit, calls, gpm, fpass, fi, fpc, output>>

\* lines 700-704: the entries of model_eml_par with a corrected dispersion out
\* of range
BadSigmaEntries ==
  {e \in (1..nobj) \X DOMAIN db :
     /\ db[e[2]].action = "f"
     /\ BadSigma(model_eml_par[e[1]][e[2]].SIGMA, model_eml_par[e[1]][e[2]].SIGMACORR2)}


\* lines 705-709 and 947: _validate_dispersions returns nothing when no entry
\* is out of range, and its value replaces model_eml_par in the outputs
ValidatedOutput(bad) == IF bad = {} THEN [FitOutputs EXCEPT ![6] = "None"] ELSE FitOutputs

\* lines 947-957 and 1446: _validate_dispersions, then _save_results and
\* Sasuke.fit return
SaveReturn ==
  /\ fpc = "saving"
  /\ si = nobj + 1
  /\ fpc' = "return"
  /\ model_eml_par' =
       [s \in 1..nobj |->
          [j \in DOMAIN db |->
             IF <<s, j>> \in BadSigmaEntries
               THEN [model_eml_par[s][j] EXCEPT !.MASK = @ \cup {"BAD_SIGMA"}]
               ELSE model_eml_par[s][j]]]
  /\ output' = ValidatedOutput(BadSigmaEntries)
  /\ UNCHANGED <<tplvars, cmpvars, loopvars, model_fit_par, negative_corr>>

FitNext ==
  \/ InitializePixels
  \/ FitSpectrum
  \/ EndIteration
  \/ SaveSetup
  \/ SaveSpectrum
  \/ SaveReturn

FitSpec == FitInit /\ [][FitNext]_vars

\* lines 1396-1436: Sasuke.fit up to the return of _fit_all_spectra
PassNext == InitializePixels \/ FitSpectrum \/ EndIteration

PassSpec == FitInit /\ [][PassNext]_vars

----------------------------------------------------------------------------
\* the rows of D in the order p
Permute(D, p) == [r \in DOMAIN D |-> D[p[r]]]

\* row of the line with index id
RowOf(D, id) == CHOOSE r \in DOMAIN D : D[r].index = id

\* template of the line with index id, -1 when it has none
TplOf(D, r, id) == r.tpli[RowOf(D, id)]

\* two lines are in the same group of array g (comp, vgrp or sgrp)
Share(D, r, g, a, b) ==
  /\ TplOf(D, r, a) >= 0
  /\ TplOf(D, r, b) >= 0
  /\ InRange(g, TplOf(D, r, a))
  /\ InRange(g, TplOf(D, r, b))
  /\ At(g, TplOf(D, r, a)) = At(g, TplOf(D, r, b))

\* which pairs of lines (by index) are in one template, one component, one
\* velocity group, one sigma group
Grouping(D, r) ==
  [a \in {D[q].index : q \in DOMAIN D}, b \in {D[q].index : q \in DOMAIN D} |->
     <<TplOf(D, r, a) >= 0 /\ TplOf(D, r, a) = TplOf(D, r, b),
       Share(D, r, r.comp, a, b),
       Share(D, r, r.vgrp, a, b),
       Share(D, r, r.sgrp, a, b)>>]

Returned == pc \in {"parsed", "done"}

\* C1: when the resolver returns for a database, it returns for every
\* permutation of the rows of that database and with the same grouping of the
\* lines into templates, components, velocity groups and sigma groups.
C1_OrderIndependent ==
  pc = "parsed" =>
    LET here == Grouping(db, Cur)
    IN  \A p \in Permutations(DOMAIN db) :
          LET r2 == Resolve(Permute(db, p))
          IN  r2.err = "" /\ Grouping(Permute(db, p), r2) = here

----------------------------------------------------------------------------
\* two fitted lines tie to each other and neither is Primary
TwoLineCycle(D) ==
  \E a, b \in DOMAIN D :
    /\ a # b
    /\ D[a].action = "f" /\ D[b].action = "f"
    /\ D[a].code \in TieCodes /\ D[b].code \in TieCodes
    /\ D[a].target = D[b].index /\ D[b].target = D[a].index

\* C2: for a database with a two-line cycle, template construction has ended
\* with an error once a pass of the loop has finished no line; it never
\* returns a grouping.
C2_CycleRaises ==
  TwoLineCycle(db) => /\ ~Returned
                      /\ stalled => pc = "error"

\* C3: the tie-resolution loop runs at most nLines passes.
C3_PassesBounded == passes <= Len(db)

RECURSIVE ReachesPrimary(_, _, _)
\* following the targets from row r reaches a line with code Primary within
\* n hops
ReachesPrimary(D, r, n) ==
  \/ D[r].code = "f"
  \/ /\ n > 0
     /\ D[r].target # NoTarget
     /\ TiedIndex(D, r) # 0
     /\ ReachesPrimary(D, TiedIndex(D, r), n - 1)

\* every non-ignored, non-primary line reaches a Primary line
ValidTieGraph(D) ==
  \A r \in DOMAIN D : D[r].action = "f" => ReachesPrimary(D, r, Len(D))

\* line r has a template with a defined component, velocity and sigma group
Defined(r) ==
  /\ tpli[r] >= 0
  /\ InRange(comp, tpli[r])
  /\ At(comp, tpli[r]) >= 0
  /\ At(vgrp, tpli[r]) >= 0
  /\ At(sgrp, tpli[r]) >= 0

\* C4: for a valid tie graph, after resolution every non-ignored line has a
\* template index >= 0 whose component, velocity group and sigma group are
\* >= 0.
C4_AllDefined ==
  (ValidTieGraph(db) /\ Returned) =>
    \A r \in DOMAIN db : db[r].action = "f" => Defined(r)

\* rows A, B, C: A Primary, B TieAll -> A, C TieAll -> B, all three fitted
TieAllChain(D, A, B, C) ==
  /\ D[A].action = "f" /\ D[B].action = "f" /\ D[C].action = "f"
  /\ D[A].code = "f"
  /\ D[B].code = "a" /\ D[B].target = D[A].index
  /\ D[C].code = "a" /\ D[C].target = D[B].index

\* C5: TieAll is transitive: with B TieAll -> Primary A and C TieAll -> B,
\* after resolution C has the template index of A, for every row order.
C5_TieAllTransitive ==
  Returned =>
    \A A, B, C \in DOMAIN db :
      TieAllChain(db, A, B, C) => tpli[C] >= 0 /\ tpli[C] = tpli[A]

\* C tied to a row B that comes after it: C is resolved one pass after B
C5_Witness ==
  /\ pc = "done"
  /\ \E A, B, C \in DOMAIN db :
       TieAllChain(db, A, B, C) /\ C < B /\ tpli[C] = tpli[A] /\ passes >= 2

\* the database [line0 Primary, line1 TieAll->line0, line2 TieKinematics->line0]
DB6 ==
  <<Line(1, "f", "f", NoTarget), Line(2, "f", "a", 1), Line(3, "f", "k", 1)>>

\* C6 as stated: 2 templates, template 0 = {line0, line1}, template 1 =
\* {line2}, components [0,1], velocity groups [0,0], sigma groups [0,0].
C6_Original ==
  (db = DB6 /\ Returned) =>
    /\ ntpl = 2
    /\ tpli = <<0, 0, 1>>
    /\ comp = <<0, 1>>
    /\ vgrp = <<0, 0>>
    /\ sgrp = <<0, 0>>

\* C6 amended: as C6, but the components are [0,0]: the TieKinematics line
\* gets a template of its own in the component of its target.
C6_Amended ==
  (db = DB6 /\ Returned) =>
    /\ ntpl = 2
    /\ tpli = <<0, 0, 1>>
    /\ comp = <<0, 0>>
    /\ vgrp = <<0, 0>>
    /\ sgrp = <<0, 0>>

C6_Witness == db = DB6 /\ pc = "done" /\ flux = <<{1, 2}, {3}>>

\* the arrays of lines 215-227 have been set
PrimariesAssigned == pc \in {"loop", "parsed", "done"}

\* C7: every non-ignored Primary line has its own template, component,
\* velocity group and sigma group, all equal to its rank among the
\* non-ignored Primary lines in input order; a database of a single Primary
\* line gives 1 template with component [0], velocity group [0], sigma
\* group [0].
C7_PrimaryOwnGroups ==
  /\ PrimariesAssigned =>
       \A r \in DOMAIN db :
         (db[r].action = "f" /\ db[r].code = "f") =>
           LET k == Cardinality({q \in 1..(r - 1) :
                                   db[q].action = "f" /\ db[q].code = "f"})
           IN  /\ tpli[r] = k
               /\ InRange(comp, k)
               /\ At(comp, k) = k
               /\ At(vgrp, k) = k
               /\ At(sgrp, k) = k
  /\ (Returned /\ db = <<Line(1, "f", "f", NoTarget)>>) =>
       /\ ntpl = 1
       /\ tpli = <<0>>
       /\ comp = <<0>>
       /\ vgrp = <<0>>
       /\ sgrp = <<0>>

\* two Primary lines after an ignored row: the rank is not the row number
C7_Witness ==
  /\ pc = "done"
  /\ \E r \in DOMAIN db :
       /\ db[r].action = "f" /\ db[r].code = "f"
       /\ tpli[r] = 1
       /\ r = 3
       /\ comp[2] = 1 /\ vgrp[2] = 1 /\ sgrp[2] = 1

\* the database with every WeakIndependent line turned into a Primary line
AsPrimary(D) ==
  [r \in DOMAIN D |->
     IF D[r].code = "w" /\ D[r].action = "f"
       THEN [D[r] EXCEPT !.code = "f", !.target = NoTarget]
       ELSE D[r]]

HasFittedWeak(D) == \E r \in DOMAIN D : D[r].code = "w" /\ D[r].action = "f"

\* C8: a non-ignored WeakIndependent line is resolved exactly as a Primary
\* line: construction ends as it does for the database with the line made
\* Primary, with the same templates, components and groups, and a warning.
C8_WeakTreatedAsPrimary ==
  (HasFittedWeak(db) /\ pc \in {"error", "parsed", "done"} /\ CheckDatabasePasses(db)) =>
    LET r == Resolve(AsPrimary(db))
    IN  /\ warned
        /\ (r.err = "") = Returned
        /\ Returned => /\ tpli = r.tpli
                       /\ comp = r.comp
                       /\ vgrp = r.vgrp
                       /\ sgrp = r.sgrp

TemplateAttributes == {"ntpl", "tpli", "comp", "vgrp", "sgrp", "flux"}

\* C9: when any line has the TieFluxOnly code, build_templates ends with an
\* error in check_database: the resolver never runs and no template
\* attribute is assigned.
C9_TieFluxOnlyRaisesFirst ==
  HasTieFluxOnly(db) =>
    /\ pc \in {"start", "error"}
    /\ assigned \cap TemplateAttributes = {}
    /\ finished = <<>>
    /\ passes = 0

C9_Witness ==
  /\ pc = "error"
  /\ \E r \in DOMAIN db : db[r].code = "x" /\ db[r].action = "i"
  /\ \E r \in DOMAIN db : db[r].code = "f" /\ db[r].action = "f"

\* the for loop is at a TieVelocity row whose target is finished and has a
\* template, and the step for that row ends without an exception
TieVelocityStep ==
  /\ pc = "loop"
  /\ i <= Len(db)
  /\ db[i].code = "v"
  /\ ~finished[i]
  /\ finished'[i]
  /\ err' = ""
  /\ tpli[TiedIndex(db, i)] >= 0

C1_Witness ==
  /\ pc = "done"
  /\ \E a, b \in DOMAIN db :
       /\ a # b
       /\ Share(db, Cur, vgrp, a, b)
       /\ ~Share(db, Cur, comp, a, b)
  /\ \E p \in Permutations(DOMAIN db) :
       \E a \in DOMAIN db :
         TplOf(Permute(db, p), Resolve(Permute(db, p)), a) # TplOf(db, Cur, a)

----------------------------------------------------------------------------
\* the tied vector has been compiled
Compiled == fpc \in {"compiled", "fitting"}

\* components of the templates of group g of the per-template array grp
GroupComponents(grp, g) == {tpl_comp[t] : t \in {k \in DOMAIN grp : grp[k] = g}}

\* component c (0-based) is fixed
FixedComponent(c) == comp_moments[c + 1] < 0

\* flat index of parameter off (0 velocity, 1 sigma) of component c
Slot(c, off) == StartOf(comp_moments, c) + off

\* in every group of grp with more than one component, none of them fixed,
\* parameter off of the lowest component is free and parameter off of every
\* other component references it
LowestIsAuthoritative(grp, off) ==
  \A g \in Range(grp) :
    LET C == GroupComponents(grp, g)
        low == CHOOSE c \in C : \A x \in C : c <= x
    IN  (Cardinality(C) > 1 /\ \A c \in C : ~FixedComponent(c)) =>
          /\ tied[Slot(low, off) + 1] = Free
          /\ \A c \in C \ {low} : tied[Slot(c, off) + 1] = Slot(low, off)

\* C11: in the compiled tie vector, for every velocity group that spans more
\* than one non-fixed component the velocity slot of the lowest component is
\* free and the velocity slot of every other member references it; the same
\* for the sigma groups and the sigma slots.
C11_LowestMemberAuthoritative ==
  Compiled => LowestIsAuthoritative(tpl_vgrp, 0) /\ LowestIsAuthoritative(tpl_sgrp, 1)

\* C12: every entry of the tied vector is free or holds the flat index of a
\* different entry, and that entry is free.
C12_NoSelfReference ==
  Compiled =>
    \A p \in DOMAIN tied :
      \/ tied[p] = Free
      \/ /\ tied[p] # p - 1
         /\ tied[p] \in 0..(Len(tied) - 1)
         /\ tied[tied[p] + 1] = Free

----------------------------------------------------------------------------
\* sum of |moments| over the fixed components
FixedMoments == 0 - SumNegative(comp_moments, Len(comp_moments))

\* max(mdegree, 0) + (degree + 1 when degree >= 0)
PolynomialTerms == Max(mdegree, 0) + (IF degree >= 0 THEN degree + 1 ELSE 0)

\* C13 as stated: dof = (number of free entries of the tied vector) + (sum of
\* |moments| of the fixed components) + the polynomial terms.
C13_Original ==
  fpc = "compiled" => dof = nfree_kin + FixedMoments + PolynomialTerms

\* component (0-based) that holds the flat index q
ComponentOf(q) ==
  CHOOSE c \in 0..(Len(comp_moments) - 1) :
    Slot(c, 0) <= q /\ q < Slot(c, 0) + Abs(comp_moments[c + 1])

\* C13 amended: dof = (number of free entries of the tied vector that belong
\* to components that are not fixed) + the polynomial terms; the moments of
\* the fixed components are taken out of the count of free entries, not added.
C13_Amended ==
  fpc = "compiled" =>
    dof = Cardinality({p \in DOMAIN tied :
                         tied[p] = Free /\ ~FixedComponent(ComponentOf(p - 1))})
          + PolynomialTerms

\* a layout with a fixed stellar component, a tied parameter and both
\* polynomials
C13_Witness ==
  /\ fpc = "compiled"
  /\ nstpl > 0
  /\ nfree_kin < Len(tied)
  /\ degree >= 0
  /\ mdegree > 0

----------------------------------------------------------------------------
\* the database fails validation: a fitted line does not reach a Primary line
\* (cycle, missing target, chain longer than the database), a TieFluxOnly line,
\* or no Primary line among the fitted lines
FailsValidation(D) ==
  \/ ~ValidTieGraph(D)
  \/ HasTieFluxOnly(D)
  \/ ~\E r \in DOMAIN D : primary_line(D)[r]

\* C17: for a database that fails validation, Sasuke.fit never reaches the
\* call of _fit_all_spectra, and it has ended with an error once a pass of the
\* resolver loop has finished no line.
C17_ValidationErrorBeforeFit ==
  FailsValidation(db) => /\ fpc # "fitting"
                         /\ stalled => pc = "error"

----------------------------------------------------------------------------
\* the spectrum examined last in the pass under way was selected for fitting
\* and has fewer good pixels than dof + the number of templates in use
ShortSpectrum ==
  /\ fpc = "fitting"
  /\ fi > 1
  /\ ToFit[fi - 1]
  /\ gpm < dof + ntpl_to_use

\* C14: in every pass, a selected spectrum with fewer good pixels than dof +
\* templates in use gets an empty result without a call of ppxf in that pass,
\* and once the output is saved it carries INSUFFICIENT_DATA.
C14_InsufficientData ==
  /\ ShortSpectrum => PassResult[fi - 1] = "empty" /\ calls[fpass][fi - 1] = 0
  /\ fpc = "return" =>
       \A s \in 1..nobj :
         (result[s] = "empty" \/ refit[s] = "empty") =>
           /\ "INSUFFICIENT_DATA" \in fit_mask[s]
           /\ "INSUFFICIENT_DATA" \in eml_mask[s]

\* C15: a failure of the optimizer for one spectrum, reported or raised, does
\* not end the batch: Sasuke.fit is never left through an exception of ppxf.
C15_FailureIsolated == ~(fpc = "error" /\ err = "PPXFError")

----------------------------------------------------------------------------
\* what a step of the fits must respect
RefitStep ==
  \* the second pass starts only when the first has gone over every spectrum
  /\ (fpass = 1 /\ fpass' = 2) => (reject /\ fi = nobj + 1)
  \* there is no pass after the second, and none without rejection
  /\ fpass' \in {1, 2}
  /\ (fpc' \in {"fitted", "saving", "return"}) => (fpass' = IF reject THEN 2 ELSE 1)
  \* the results of the first pass are final once the second has started
  /\ fpass = 2 => result' = result
  /\ \A s \in 1..nobj :
       \* at most one call of ppxf per spectrum and pass
       /\ calls'[1][s] <= 1
       /\ calls'[2][s] <= 1
       \* a call of the second pass is for a spectrum of which the first-pass
       \* fit succeeded
       /\ calls'[2][s] > calls[2][s] => (fpass = 2 /\ reject /\ result[s] = "ok")

\* C16: ppxf is called at most twice per spectrum with rejection and at most
\* once without; the one refit pass starts after the first pass has gone over
\* every spectrum and calls ppxf only for spectra whose first fit succeeded.
C16_OneRefitPass == [][RefitStep]_vars

\* one spectrum fitted twice, another one failed in the first pass and left
\* out of the second
C16_Witness ==
  /\ fpc = "fitted"
  /\ \E s, q \in 1..nobj :
       /\ calls[1][s] = 1 /\ calls[2][s] = 1
       /\ result[q] = "failed" /\ calls[1][q] = 1 /\ calls[2][q] = 0

----------------------------------------------------------------------------
\* C18: the vectors lbound and ubound of _save_results keep the configured
\* limits, and the velocity bounds used for a spectrum are the configured
\* velocity limits offset by the initial-guess velocity of that spectrum.
C18_BoundsOfOwnGuess ==
  fpc \in {"saving", "return"} =>
    /\ lbound = BoundVector(comp_moments, 1)
    /\ ubound = BoundVector(comp_moments, 2)
    /\ \A s \in 1..nobj :
         vbounds[s] # <<>> =>
           \A p \in DOMAIN tied :
             VelIndx(tied, comp_moments)[p] =>
               /\ vbounds[s][1][p] = velocity_limits[1] + kininp[s]
               /\ vbounds[s][2][p] = velocity_limits[2] + kininp[s]

----------------------------------------------------------------------------
\* the loop resolves a TieKinematics line whose target has a template
TieKinematicsStep ==
  /\ pc = "loop"
  /\ i <= Len(db)
  /\ db[i].code = "k"
  /\ ~finished[i]
  /\ finished'[i]
  /\ err' = ""
  /\ tpli[TiedIndex(db, i)] >= 0

----------------------------------------------------------------------------
RECURSIVE RootPrimary(_, _, _)
\* _tied_index(i, primary=True) with at most n hops: the row reached from
\* row r by following the targets until a line of mode f, 0 when there is none
RootPrimary(D, r, n) ==
  IF D[r].code = "f" THEN r
  ELSE IF n = 0 \/ D[r].target = NoTarget \/ TiedIndex(D, r) = 0 THEN 0
  ELSE RootPrimary(D, TiedIndex(D, r), n - 1)

\* the rule of the code of fitted line r, applied relative to line t: same
\* template (a), same component and groups (k), same velocity group (v), same
\* sigma group (s)
RuleRelativeTo(r, t) ==
  CASE db[r].code = "a" -> tpli[r] = tpli[t]
    [] db[r].code = "k" -> /\ At(comp, tpli[r]) = At(comp, tpli[t])
                           /\ At(vgrp, tpli[r]) = At(vgrp, tpli[t])
                           /\ At(sgrp, tpli[r]) = At(sgrp, tpli[t])
    [] db[r].code = "v" -> At(vgrp, tpli[r]) = At(vgrp, tpli[t])
    [] db[r].code = "s" -> At(sgrp, tpli[r]) = At(sgrp, tpli[t])
    [] OTHER -> TRUE

\* fitted tied line r and line t both have a template
BothResolved(r, t) ==
  /\ db[r].action = "f"
  /\ db[r].code \in TieCodes
  /\ t # 0
  /\ tpli[r] >= 0
  /\ tpli[t] >= 0

\* C20 as stated: in a returned resolution, the rule of every tied line holds
\* relative to the Primary line at the root of its chain of targets.
C20_Original ==
  Returned =>
    \A r \in DOMAIN db :
      BothResolved(r, RootPrimary(db, r, Len(db))) =>
        RuleRelativeTo(r, RootPrimary(db, r, Len(db)))

\* C20 amended: in a returned resolution, the rule of every tied line holds
\* relative to its direct target, the line named in its mode.
C20_Amended ==
  Returned =>
    \A r \in DOMAIN db :
      BothResolved(r, TiedIndex(db, r)) => RuleRelativeTo(r, TiedIndex(db, r))

\* a TieSigma line tied to a TieVelocity line: it is in the sigma group of
\* that line, which is not the sigma group of the Primary line of the chain
C20_Witness ==
  /\ Returned
  /\ \E r \in DOMAIN db :
       /\ db[r].code = "s" /\ db[r].action = "f"
       /\ db[TiedIndex(db, r)].code = "v"
       /\ BothResolved(r, TiedIndex(db, r))
       /\ BothResolved(r, RootPrimary(db, r, Len(db)))
       /\ At(sgrp, tpli[r]) = At(sgrp, tpli[TiedIndex(db, r)])
       /\ At(sgrp, tpli[r]) # At(sgrp, tpli[RootPrimary(db, r, Len(db))])

----------------------------------------------------------------------------
\* C21: when the resolver has returned, a fitted line whose rest wavelength
\* lies outside of the wavelength range of the template grid has template
\* index -1, and it is in no row of the template fluxes.
C21_OutOfRangeUnassigned ==
  Returned =>
    \A r \in DOMAIN db :
      (db[r].action = "f" /\ db[r].restwave = "out") =>
        /\ tpli[r] = -1
        /\ \A t \in DOMAIN flux : r \notin flux[t]

----------------------------------------------------------------------------
\* rows of flux that hold the profile of line r
RowsOf(r) == {t \in DOMAIN flux : r \in flux[t]}

\* C26: after build_templates, flux has exactly ntpl rows, every line with a
\* template index >= 0 is in exactly one row, the row of its template index,
\* and a line with template index -1 is in no row.
C26_RowsAreTemplates ==
  pc = "done" =>
    /\ Len(flux) = ntpl
    /\ \A r \in DOMAIN db :
         /\ tpli[r] >= 0 => RowsOf(r) = {tpli[r] + 1}
         /\ tpli[r] = -1 => RowsOf(r) = {}

\* row r is a fitted line tied to another row
FittedTiedLine(r) ==
  /\ db[r].action = "f"
  /\ db[r].code \in TieCodes
  /\ db[r].target # NoTarget
  /\ TiedIndex(db, r) # 0

\* C27: when build_templates has returned, every fitted line has a template
\* index >= 0, and the target of every fitted tied line has a template: no
\* line copied the index -1 or read the groups of template -1.
C27_FittedLinesHaveTemplates ==
  pc = "done" =>
    \A r \in DOMAIN db :
      /\ db[r].action = "f" => tpli[r] >= 0
      /\ FittedTiedLine(r) => tpli[TiedIndex(db, r)] >= 0

\* C28: when the resolver has returned, ntpl is the number of rows minus the
\* ignored rows minus the TieAll rows, and the template indices held by the
\* lines are exactly 0, ..., ntpl-1.
C28_IndicesCoverTemplates ==
  Returned =>
    /\ ntpl = Len(db) - Count(ignore_line(db)) - Count(tied_all(db))
    /\ {tpli[r] : r \in DOMAIN db} \ {-1} = 0..(ntpl - 1)

----------------------------------------------------------------------------
\* the flag is on in the three masks of spectrum s
FlaggedFailed(s) ==
  /\ "FIT_FAILED" \in model_mask[s]
  /\ "FIT_FAILED" \in fit_mask[s]
  /\ "FIT_FAILED" \in eml_mask[s]

\* the optimizer failed for spectrum s, in the first pass or in the refit
OptimizerFailed(s) == result[s] = "failed" \/ refit[s] = "failed"

\* C22: in the saved output, a spectrum whose optimizer fit failed (without
\* rejection, or in the first pass with rejection) has FIT_FAILED in its
\* three masks, and a spectrum whose fits did not fail has it in none.
C22_FailedFitFlagged ==
  fpc = "return" =>
    \A s \in 1..nobj :
      /\ OptimizerFailed(s) => FlaggedFailed(s)
      /\ ~OptimizerFailed(s) =>
           "FIT_FAILED" \notin (model_mask[s] \cup fit_mask[s] \cup eml_mask[s])

----------------------------------------------------------------------------
\* the parameter records of spectrum s are as init_record_array left them
InitialRecords(s) ==
  /\ model_fit_par[s].TPLWGT = "zero"
  /\ \A p \in DOMAIN tied : model_fit_par[s].KIN[p] = "zero"
  /\ kininp[s] = 0
  /\ vbounds[s] = <<>>
  /\ \A j \in DOMAIN db :
       /\ model_eml_par[s][j].FLUX = <<>>
       /\ model_eml_par[s][j].SIGMA = 0
       /\ model_eml_par[s][j].SIGMACORR2 = 0

\* C23: in _save_results a spectrum that was not fitted, was skipped for
\* insufficient data or whose fit failed gets mask flags only: its weights,
\* kinematics, bounds, line fluxes and dispersion corrections keep their
\* initial values.
C23_OnlySucceededPostProcessed ==
  fpc \in {"saving", "return"} =>
    \A s \in 1..nobj : FitResult[s] # "ok" => InitialRecords(s)

----------------------------------------------------------------------------
\* flat indices of the velocity of the components
VelocitySlots == {Slot(c, 0) : c \in 0..(Len(comp_moments) - 1)}

\* C24: for every succeeded spectrum that has been saved, the entries of the
\* flattened kinematics that are in cz are exactly the first entries of the
\* components, free or tied; every other entry is not converted.
C24_VelocitySlotsConverted ==
  fpc \in {"saving", "return"} =>
    \A s \in 1..(si - 1) :
      FitResult[s] = "ok" =>
        \A p \in DOMAIN tied :
          (model_fit_par[s].KIN[p] = "cz") = (p - 1 \in VelocitySlots)

----------------------------------------------------------------------------
\* every flag recorded for spectrum s
FlagsOf(s) ==
  model_mask[s] \cup fit_mask[s] \cup eml_mask[s]
    \cup UNION {model_eml_par[s][j].MASK : j \in DOMAIN db}

\* a line of spectrum s was fitted with a dispersion at its lower limit
AtMinimumSigma(s) ==
  \E j \in DOMAIN db :
    /\ model_eml_par[s][j].FLUX # <<>>
    /\ model_eml_par[s][j].SIGMA <= sigma_limits[1]

\* C25: Sasuke.fit returns also when a resolution correction was negative or
\* a parameter is near a bound; a spectrum with a negative correction has a
\* stored correction of 0 and a flag in its masks, and a spectrum with a
\* dispersion at its lower limit has the flag MIN_SIGMA.
C25_AnomaliesFlagged ==
  fpc = "return" =>
    \A s \in 1..nobj :
      /\ negative_corr[s] =>
           /\ \A j \in DOMAIN db : model_eml_par[s][j].SIGMACORR2 = 0
           /\ FlagsOf(s) # {}
      /\ AtMinimumSigma(s) => "MIN_SIGMA" \in fit_mask[s]

----------------------------------------------------------------------------
\* C29: for every succeeded spectrum and every fitted line j, the saved flux
\* is the weight of the template of line j (its template index behind the
\* stellar templates) times the flux of line j in the database.
C29_FluxOfOwnTemplate ==
  fpc \in {"saving", "return"} =>
    \A s \in 1..(si - 1) :
      FitResult[s] = "ok" =>
        \A j \in DOMAIN db :
          db[j].action = "f" => model_eml_par[s][j].FLUX = <<tpli[j] + nstpl, j>>

----------------------------------------------------------------------------
\* C30: when Sasuke.fit has returned, at line 1446 or at line 1416, it has
\* returned the six outputs, none of them None.
C30_SixOutputs == fpc \in {"return", "early_return"} => output = FitOutputs

====
